---- MODULE Spec2Model ----
(***************************************************************************)
(* A model of DataRow (ts/Data/DataRow.ts): one row, its column mapping,   *)
(* its identity, the listeners registered on it, and the event-gated       *)
(* mutators insertColumn / updateColumn / deleteColumn / clear, together   *)
(* with toJSON / fromJSON.                                                 *)
(*                                                                         *)
(* A mutator call is one action: it runs the whole handler, the listeners  *)
(* of its events and the calls those listeners make on the same row        *)
(* included.  `events` is the trace of the events the last call emitted,   *)
(* `ret` its return value, `call` its arguments and `before` the column    *)
(* mapping at the moment it was called.                                    *)
(***************************************************************************)
EXTENDS Integers, Sequences, FiniteSets, TLC

VARIABLES columns, id, id0, uniqueKeyCounter, listeners,
          call, before, events, ret, json, restored,
          caller, shared, generatedIds, result

vars == <<columns, id, id0, uniqueKeyCounter, listeners,
          call, before, events, ret, json, restored,
          caller, shared, generatedIds, result>>

(***************************************************************************)
(* Values.  A column value or a JSON value is a record of its JavaScript   *)
(* type and its content: num for a number, a boolean (0/1), the epoch      *)
(* milliseconds of a Date and the identity of a Table, str for a string.   *)
(***************************************************************************)
Val(t, n, s) == [type |-> t, num |-> n, str |-> s]

Undefined == Val("undefined", 0, "")
Null      == Val("null", 0, "")
True      == Val("boolean", 1, "")
Num0      == Val("number", 0, "")
StrS      == Val("string", 0, "s")
Date7     == Val("Date", 7, "")
Table1    == Val("Table", 1, "")

Str(s) == Val("string", 0, s)

\* DataRow.ColumnTypes: boolean | null | number | string | Date | DataTable | undefined
ColumnTypes == {Undefined, Null, True, Num0, StrS, Date7, Table1}

\* the values the mutators are called with in Spec
CallValues == {Undefined, Num0}

\* the id entries of the mapping a row is constructed from: a non-string
\* and a string
IdEntries == {Num0, StrS}

\* the column keys the mutators are called with
CallKeys == {"id", "a", "_DATA_CLASS_NAME_"}

NoKey == ""

\* the object {}
NoJSON == [x \in {} |-> Undefined]

(***************************************************************************)
(* The column mapping is a JavaScript object used as a map: a function     *)
(* whose domain is the set of its own keys.                                *)
(***************************************************************************)
\* The names the mapping inherits: it is a plain object, whose prototype is
\* Object.prototype.  "constructor" stands for them; the accessor
\* "__proto__" is not among the keys of the model.
PrototypeKeys == {"constructor"}

\* Object.prototype[k]: a function
ObjectPrototype(k) == [type |-> "function", num |-> 0, str |-> k]

\* row.columns[columnKey] read: the stored value of an own key, else the
\* inherited value, else undefined
Lookup(cols, k) ==
    IF k \in DOMAIN cols THEN cols[k]
    ELSE IF k \in PrototypeKeys THEN ObjectPrototype(k)
    ELSE Undefined

\* row.columns[columnKey] = columnValue
Assign(cols, k, v) ==
    [x \in (DOMAIN cols) \cup {k} |-> IF x = k THEN v ELSE cols[x]]

\* delete row.columns[columnKey]
Delete(cols, k) == [x \in (DOMAIN cols) \ {k} |-> cols[x]]

\* Object.keys(this.columns), as a set
getColumnKeys(cols) == DOMAIN cols

getColumnCount(cols) == Cardinality(getColumnKeys(cols))

getColumn(cols, k) == Lookup(cols, k)

\* U.merge(columns): a deep copy of the mapping
merge(cols) == [x \in DOMAIN cols |-> cols[x]]

getAllColumns(cols) == merge(cols)

\* U.uniqueKey(): the string "highcharts-" followed by the value n of the
\* process-wide counter, a different string for every n
uniqueKey(n) == Val("string", n, "highcharts-")

(***************************************************************************)
(* Events and listeners.                                                   *)
(***************************************************************************)
PreEvents  == {"insertColumn", "updateColumn", "deleteColumn", "clearRow"}
PostEvents == {"afterInsertColumn", "afterUpdateColumn",
               "afterDeleteColumn", "afterClearRow"}
EventNames == PreEvents \cup PostEvents

\* A registered listener: the event it listens to and what its callback does:
\* veto    - it calls e.preventDefault();
\* reenter - it calls row.updateColumn(ListenerKey, ListenerValue), unless
\*           it is already running (its own re-entrancy guard).
ListenerKey   == "a"
ListenerValue == Num0
\* (preventDefault has no effect on a post-event, which has no default
\* function, so only listeners of pre-events are given a veto.)
Registrations ==
    {r \in [event : EventNames, veto : BOOLEAN, reenter : BOOLEAN] :
        /\ r.veto \/ r.reenter
        /\ r.veto => r.event \in PreEvents}

MaxListeners == 1

Payload(k, v) == [columnKey |-> k, columnValue |-> v]
\* the payload {} of clearRow / afterClearRow
EmptyPayload == Payload(NoKey, Undefined)

\* The event object the listeners of `type` receive, as the trace records
\* it: its payload, whether a listener prevented its default, the nesting
\* depth of the call that fired it, the column mapping at that moment and
\* the registrations whose listener was called for it.
EventObject(st, type, payload, depth) ==
    [type |-> type, columnKey |-> payload.columnKey,
     columnValue |-> payload.columnValue, defaultPrevented |-> FALSE,
     depth |-> depth, columns |-> st.columns, called |-> <<>>]

RECURSIVE runListeners(_, _, _, _, _)
RECURSIVE updateColumnOp(_, _, _, _, _)

\* U.fireEvent(row, type, payload, defaultFunction), up to the point where
\* the default function would run: every listener of `type` is called in
\* registration order; the result says whether one of them prevented the
\* default.  The caller runs its default function when it did not.
fireEvent(st, ls, type, payload, depth) ==
    runListeners(
        [columns |-> st.columns, id |-> st.id,
         events |-> Append(st.events, EventObject(st, type, payload, depth)),
         defaultPrevented |-> FALSE],
        ls, 1, Len(st.events) + 1, depth)

\* the listeners ls[i..] of the event recorded at index e of the trace
runListeners(st, ls, i, e, depth) ==
    IF i > Len(ls) THEN st
    ELSE IF ls[i].event # st.events[e].type
    THEN runListeners(st, ls, i + 1, e, depth)
    ELSE LET s0 == [st EXCEPT !.events[e].called = Append(@, i)]
             s1 == IF ls[i].reenter /\ depth = 0
                   THEN LET r == updateColumnOp(s0, ls, ListenerKey,
                                                ListenerValue, depth + 1)
                        IN  [s0 EXCEPT !.columns = r.columns,
                                       !.id = r.id,
                                       !.events = r.events]
                   ELSE s0
             s2 == IF ls[i].veto
                   THEN [s1 EXCEPT !.defaultPrevented = TRUE,
                                   !.events[e].defaultPrevented = TRUE]
                   ELSE s1
         IN  runListeners(s2, ls, i + 1, e, depth)

\* return succeeded
Returning(st, succeeded) ==
    [columns |-> st.columns, id |-> st.id, events |-> st.events,
     ret |-> succeeded]

(***************************************************************************)
(* The mutators of DataRow, as functions of the row state `st`             *)
(* ([columns, id, events, ...]), the registered listeners `ls` and the     *)
(* nesting depth of the call.                                              *)
(***************************************************************************)
\* insertColumn firing afterInsertColumn before it stores the value
insertColumnOp_PostEventFirst(st, ls, columnKey, columnValue, depth) ==
    IF columnKey = "id" \/ columnKey \in getColumnKeys(st.columns)
    THEN Returning(st, FALSE)
    ELSE LET p == Payload(columnKey, columnValue)
             f == fireEvent(st, ls, "insertColumn", p, depth)
         IN  IF f.defaultPrevented
             THEN Returning(f, FALSE)
             ELSE LET g == fireEvent(f, ls, "afterInsertColumn", p, depth)
                  IN  Returning([g EXCEPT !.columns =
                                    Assign(g.columns, columnKey, columnValue)],
                                TRUE)

\* insertColumn taking a key whose stored value is undefined for absent
insertColumnOp_ValueCheck(st, ls, columnKey, columnValue, depth) ==
    IF columnKey = "id" \/ Lookup(st.columns, columnKey) # Undefined
    THEN Returning(st, FALSE)
    ELSE LET p == Payload(columnKey, columnValue)
             f == fireEvent(st, ls, "insertColumn", p, depth)
         IN  IF f.defaultPrevented
             THEN Returning(f, FALSE)
             ELSE LET d == [f EXCEPT !.columns =
                                Assign(f.columns, columnKey, columnValue)]
                      g == fireEvent(d, ls, "afterInsertColumn", p, depth)
                  IN  Returning(g, TRUE)

\* insertColumn whose default action stores the value only when the key is
\* still absent
insertColumnOp_RecheckAtDefault(st, ls, columnKey, columnValue, depth) ==
    IF columnKey = "id" \/ columnKey \in getColumnKeys(st.columns)
    THEN Returning(st, FALSE)
    ELSE LET p == Payload(columnKey, columnValue)
             f == fireEvent(st, ls, "insertColumn", p, depth)
         IN  IF f.defaultPrevented
             THEN Returning(f, FALSE)
             ELSE LET d == IF columnKey \in getColumnKeys(f.columns) THEN f
                           ELSE [f EXCEPT !.columns =
                                    Assign(f.columns, columnKey, columnValue)]
                      g == fireEvent(d, ls, "afterInsertColumn", p, depth)
                  IN  Returning(g, TRUE)

insertColumnOp(st, ls, columnKey, columnValue, depth) ==
    IF columnKey = "id" \/ columnKey \in getColumnKeys(st.columns)
    THEN Returning(st, FALSE)
    ELSE LET p == Payload(columnKey, columnValue)
             f == fireEvent(st, ls, "insertColumn", p, depth)
         IN  IF f.defaultPrevented
             THEN Returning(f, FALSE)
             ELSE LET d == [f EXCEPT !.columns =
                                Assign(f.columns, columnKey, columnValue)]
                      g == fireEvent(d, ls, "afterInsertColumn", p, depth)
                  IN  Returning(g, TRUE)

\* updateColumn refusing a key that is not a column key
updateColumnOp_ExistenceGuard(st, ls, columnKey, columnValue, depth) ==
    IF columnKey = "id" \/ columnKey \notin getColumnKeys(st.columns)
    THEN Returning(st, FALSE)
    ELSE LET p == Payload(columnKey, columnValue)
             f == fireEvent(st, ls, "updateColumn", p, depth)
         IN  IF f.defaultPrevented
             THEN Returning(f, FALSE)
             ELSE LET d == [f EXCEPT !.columns =
                                Assign(f.columns, columnKey, columnValue)]
                      g == fireEvent(d, ls, "afterUpdateColumn", p, depth)
                  IN  Returning(g, TRUE)

\* updateColumn without the check of the key "id"
updateColumnOp_NoIdGuard(st, ls, columnKey, columnValue, depth) ==
    LET p == Payload(columnKey, columnValue)
        f == fireEvent(st, ls, "updateColumn", p, depth)
    IN  IF f.defaultPrevented
        THEN Returning(f, FALSE)
        ELSE LET d == [f EXCEPT !.columns =
                           Assign(f.columns, columnKey, columnValue)]
                 g == fireEvent(d, ls, "afterUpdateColumn", p, depth)
             IN  Returning(g, TRUE)

\* updateColumn replacing the whole mapping by the one column
updateColumnOp_Replace(st, ls, columnKey, columnValue, depth) ==
    IF columnKey = "id"
    THEN Returning(st, FALSE)
    ELSE LET p == Payload(columnKey, columnValue)
             f == fireEvent(st, ls, "updateColumn", p, depth)
         IN  IF f.defaultPrevented
             THEN Returning(f, FALSE)
             ELSE LET d == [f EXCEPT !.columns =
                                Assign(NoJSON, columnKey, columnValue)]
                      g == fireEvent(d, ls, "afterUpdateColumn", p, depth)
                  IN  Returning(g, TRUE)

updateColumnOp(st, ls, columnKey, columnValue, depth) ==
    IF columnKey = "id"
    THEN Returning(st, FALSE)
    ELSE LET p == Payload(columnKey, columnValue)
             f == fireEvent(st, ls, "updateColumn", p, depth)
         IN  IF f.defaultPrevented
             THEN Returning(f, FALSE)
             ELSE LET d == [f EXCEPT !.columns =
                                Assign(f.columns, columnKey, columnValue)]
                      g == fireEvent(d, ls, "afterUpdateColumn", p, depth)
                  IN  Returning(g, TRUE)

\* deleteColumn without the check of the key "id"
deleteColumnOp_NoIdGuard(st, ls, columnKey, depth) ==
    LET columnValue == Lookup(st.columns, columnKey)
        p == Payload(columnKey, columnValue)
        f == fireEvent(st, ls, "deleteColumn", p, depth)
    IN  IF f.defaultPrevented
        THEN Returning(f, FALSE)
        ELSE LET d == [f EXCEPT !.columns = Delete(f.columns, p.columnKey)]
                 g == fireEvent(d, ls, "afterDeleteColumn", p, depth)
             IN  Returning(g, TRUE)

\* deleteColumn rejecting a key that is not in the row
deleteColumnOp_ExistenceGuard(st, ls, columnKey, depth) ==
    LET columnValue == Lookup(st.columns, columnKey)
    IN  IF columnKey = "id" \/ columnKey \notin getColumnKeys(st.columns)
        THEN Returning(st, FALSE)
        ELSE LET p == Payload(columnKey, columnValue)
                 f == fireEvent(st, ls, "deleteColumn", p, depth)
             IN  IF f.defaultPrevented
                 THEN Returning(f, FALSE)
                 ELSE LET d == [f EXCEPT !.columns =
                                    Delete(f.columns, p.columnKey)]
                          g == fireEvent(d, ls, "afterDeleteColumn", p, depth)
                      IN  Returning(g, TRUE)

deleteColumnOp(st, ls, columnKey, depth) ==
    LET columnValue == Lookup(st.columns, columnKey)
    IN  IF columnKey = "id"
        THEN Returning(st, FALSE)
        ELSE LET p == Payload(columnKey, columnValue)
                 f == fireEvent(st, ls, "deleteColumn", p, depth)
             IN  IF f.defaultPrevented
                 THEN Returning(f, FALSE)
                 ELSE LET d == [f EXCEPT !.columns =
                                    Delete(f.columns, p.columnKey)]
                          g == fireEvent(d, ls, "afterDeleteColumn", p, depth)
                      IN  Returning(g, TRUE)

\* clear running its default action whether or not it was prevented
clearOp_IgnoreVeto(st, ls, depth) ==
    LET f == fireEvent(st, ls, "clearRow", EmptyPayload, depth)
        d == [f EXCEPT !.columns = Assign(f.columns, "length", Num0)]
        g == fireEvent(d, ls, "afterClearRow", EmptyPayload, depth)
    IN  Returning(g, TRUE)

\* row.columns.length = 0: `columns` is a plain object, not an array, so the
\* assignment stores the number 0 under the key "length".
clearOp(st, ls, depth) ==
    LET f == fireEvent(st, ls, "clearRow", EmptyPayload, depth)
    IN  IF f.defaultPrevented
        THEN Returning(f, FALSE)
        ELSE LET d == [f EXCEPT !.columns = Assign(f.columns, "length", Num0)]
                 g == fireEvent(d, ls, "afterClearRow", EmptyPayload, depth)
             IN  Returning(g, TRUE)

\* the constructor taking any defined id entry as the id
DataRow_AnyId(cols, n) ==
    LET c == merge(cols)
    IN  [columns |-> Delete(c, "id"),
         id |-> IF Lookup(c, "id").type # "undefined"
                THEN Lookup(c, "id") ELSE uniqueKey(n),
         usedUniqueKey |-> Lookup(c, "id").type = "undefined",
         isArgument |-> FALSE]

\* the constructor without merge: this.columns is the argument itself
DataRow_NoMerge(cols, n) ==
    [columns |-> Delete(cols, "id"),
     id |-> IF Lookup(cols, "id").type = "string"
            THEN Lookup(cols, "id") ELSE uniqueKey(n),
     usedUniqueKey |-> Lookup(cols, "id").type # "string",
     isArgument |-> TRUE]

\* new DataRow(columns): the row state after construction, given the value
\* n of the unique-key counter.  this.columns and the local `columns` are
\* the object merge returned, so `delete columns.id` acts on that object
\* and isArgument, whether this.columns is the caller's object, is false.
DataRow(cols, n) ==
    LET c == merge(cols)
    IN  [columns |-> Delete(c, "id"),
         id |-> IF Lookup(c, "id").type = "string"
                THEN Lookup(c, "id") ELSE uniqueKey(n),
         usedUniqueKey |-> Lookup(c, "id").type # "string",
         isArgument |-> FALSE]

(***************************************************************************)
(* Serialization.  A JSON object is a function from its keys to JSON       *)
(* values: the primitives, and the types "object" and "array" for the      *)
(* JSON of a nested table.                                                 *)
(***************************************************************************)
\* DataTable.toJSON() of the table value t
tableToJSON(t) == Val("object", t.num, "")

\* DataTable.fromJSON(json) of a JSON object
tableFromJSON(j) == Val("Table", j.num, "")

\* DataTable.fromJSON({_DATA_CLASS_NAME_: 'DataTable', rows: value}) of a
\* JSON array
tableFromRows(j) == Val("Table", j.num, "")

\* Date.prototype.getTime()
getTime(d) == Val("number", d.num, "")

\* key[0], the first character of a key
FirstChar(key) ==
    CASE key = "_DATA_CLASS_NAME_" -> "_"
      [] key = "id" -> "i"
      [] key = "a" -> "a"
      [] key = "length" -> "l"
      [] key = "constructor" -> "c"
      [] OTHER -> ""

RECURSIVE toJSONLoop(_, _, _)
\* toJSON leaving out a null column as it leaves out an undefined one
toJSONLoop_SkipNull(cols, columnKeys, js) ==
    IF columnKeys = {} THEN js
    ELSE LET key == CHOOSE k \in columnKeys : TRUE
             value == cols[key]
             rest == columnKeys \ {key}
         IN  CASE value.type \in {"undefined", "null"} ->
                    toJSONLoop(cols, rest, js)
               [] value.type \in {"boolean", "number", "string"} ->
                    toJSONLoop(cols, rest, Assign(js, key, value))
               [] OTHER ->
                    IF value.type = "Date"
                    THEN toJSONLoop(cols, rest, Assign(js, key, getTime(value)))
                    ELSE toJSONLoop(cols, rest,
                                    Assign(js, key, tableToJSON(value)))

\* the for loop of toJSON over columnKeys
toJSONLoop(cols, columnKeys, js) ==
    IF columnKeys = {} THEN js
    ELSE LET key == CHOOSE k \in columnKeys : TRUE
             value == cols[key]
             rest == columnKeys \ {key}
         IN  CASE value.type = "undefined" ->
                    toJSONLoop(cols, rest, js)
               [] value.type \in {"boolean", "number", "string"} ->
                    toJSONLoop(cols, rest, Assign(js, key, value))
               [] OTHER ->
                    IF value.type = "null"
                    THEN toJSONLoop(cols, rest, Assign(js, key, value))
                    ELSE IF value.type = "Date"
                    THEN toJSONLoop(cols, rest, Assign(js, key, getTime(value)))
                    ELSE toJSONLoop(cols, rest,
                                    Assign(js, key, tableToJSON(value)))

\* row.toJSON()
toJSON(cols, rowId) ==
    LET cs == getAllColumns(cols)
    IN  toJSONLoop(cs, DOMAIN cs,
                   [k \in {"_DATA_CLASS_NAME_", "id"} |->
                       IF k = "id" THEN rowId ELSE Str("DataRow")])

RECURSIVE fromJSONLoop(_, _, _)
\* fromJSON without the skip of the keys that start with '_'
fromJSONLoop_KeepUnderscore(js, keys, cols) ==
    IF keys = {} THEN cols
    ELSE LET key == CHOOSE k \in keys : TRUE
             value == js[key]
             rest == keys \ {key}
         IN  IF value.type \in {"object", "array"}
             THEN IF value.type = "array"
                  THEN fromJSONLoop(js, rest,
                                    Assign(cols, key, tableFromRows(value)))
                  ELSE fromJSONLoop(js, rest,
                                    Assign(cols, key, tableFromJSON(value)))
             ELSE fromJSONLoop(js, rest, Assign(cols, key, value))

\* the while loop of fromJSON over the keys of json
fromJSONLoop(js, keys, cols) ==
    IF keys = {} THEN cols
    ELSE LET key == CHOOSE k \in keys : TRUE
             value == js[key]
             rest == keys \ {key}
         IN  IF FirstChar(key) = "_"
             THEN fromJSONLoop(js, rest, cols)
             ELSE IF value.type \in {"object", "array"}
             THEN IF value.type = "array"
                  THEN fromJSONLoop(js, rest,
                                    Assign(cols, key, tableFromRows(value)))
                  ELSE fromJSONLoop(js, rest,
                                    Assign(cols, key, tableFromJSON(value)))
             ELSE fromJSONLoop(js, rest, Assign(cols, key, value))

\* DataRow.fromJSON(json), given the value n of the unique-key counter
fromJSON(js, n) == DataRow(fromJSONLoop(js, DOMAIN js, NoJSON), n)

(***************************************************************************)
(* The state machine: one row and the calls made on it.                    *)
(***************************************************************************)
Mappings(keys, values) == UNION {[S -> values] : S \in SUBSET keys}

Call(op, k, v) == [op |-> op, columnKey |-> k, columnValue |-> v]

\* the row state a call starts from
Row == [columns |-> columns, id |-> id, events |-> <<>>]

\* no row: the value of `restored` when the last call was not fromJSON
NoRow == [columns |-> NoJSON, id |-> Undefined]

\* row = new DataRow(m), the first row of the process.  `caller` is the
\* object the calling code holds: m when it keeps it (keeps), else {}; with
\* `shared` that object is the very object this.columns.
Construct(m, keeps) ==
    LET r == DataRow(m, 0)
    IN  /\ columns = r.columns
        /\ id = r.id
        /\ id0 = r.id
        /\ uniqueKeyCounter = (IF r.usedUniqueKey THEN 1 ELSE 0)
        /\ generatedIds = (IF r.usedUniqueKey THEN <<r.id>> ELSE <<>>)
        /\ listeners = <<>>
        /\ call = Call("new", NoKey, Undefined)
        /\ before = r.columns
        /\ events = <<>>
        /\ ret = TRUE
        /\ json = NoJSON
        /\ restored = NoRow
        /\ result = Undefined
        /\ shared = (keeps /\ r.isArgument)
        /\ caller = (IF ~keeps THEN NoJSON
                     ELSE IF r.isArgument THEN r.columns ELSE m)

\* the mappings a row is constructed from: any of the keys, "id" included
InitMappings(values) ==
    {m \in Mappings(CallKeys, values \cup IdEntries) :
        \A k \in DOMAIN m :
            IF k = "id" THEN m[k] \in IdEntries ELSE m[k] \in values}

Init == \E m \in InitMappings(CallValues) : Construct(m, FALSE)

\* the effect of a mutator call whose result is r
Mutated(r, c) ==
    /\ columns' = r.columns
    /\ id' = r.id
    /\ events' = r.events
    /\ ret' = r.ret
    /\ call' = c
    /\ before' = columns
    /\ json' = NoJSON
    /\ restored' = NoRow
    /\ result' = Undefined
    /\ caller' = (IF shared THEN r.columns ELSE caller)
    /\ UNCHANGED <<id0, uniqueKeyCounter, listeners, shared, generatedIds>>

insertColumn(columnKey, columnValue) ==
    Mutated(insertColumnOp(Row, listeners, columnKey, columnValue, 0),
            Call("insertColumn", columnKey, columnValue))

updateColumn(columnKey, columnValue) ==
    Mutated(updateColumnOp(Row, listeners, columnKey, columnValue, 0),
            Call("updateColumn", columnKey, columnValue))

deleteColumn(columnKey) ==
    Mutated(deleteColumnOp(Row, listeners, columnKey, 0),
            Call("deleteColumn", columnKey, Undefined))

clear ==
    Mutated(clearOp(Row, listeners, 0), Call("clear", NoKey, Undefined))

\* a call that is no mutator: it leaves the row alone and emits no event
NotMutated(c) ==
    /\ call' = c
    /\ before' = columns
    /\ events' = <<>>
    /\ ret' = TRUE
    /\ json' = NoJSON
    /\ restored' = NoRow
    /\ result' = Undefined
    /\ UNCHANGED <<columns, id, id0, uniqueKeyCounter,
                   caller, shared, generatedIds>>

\* row.on registering the callback for another event
on_OtherEvent(event, veto, reenter) ==
    /\ listeners' = Append(listeners,
                           [event |-> "clearRow", veto |-> veto,
                            reenter |-> reenter])
    /\ NotMutated(Call("on", event, Undefined))

\* row.on(event, callback): U.addEvent appends the registration.  (The call
\* is recorded with the event name in the place of the column key.)
on(event, veto, reenter) ==
    /\ listeners' = Append(listeners,
                           [event |-> event, veto |-> veto, reenter |-> reenter])
    /\ NotMutated(Call("on", event, Undefined))

\* A removed registration.  The i-th registration keeps its place i in
\* `listeners`, so that i names the function row.on returned for it.
Removed == [event |-> "", veto |-> FALSE, reenter |-> FALSE]

\* calling the function row.on returned for the i-th registration, for the
\* first time or again.  (The call is recorded with i as its value.)
unsubscribe(i) ==
    /\ i \in 1..Len(listeners)
    /\ listeners' = [listeners EXCEPT ![i] = Removed]
    /\ NotMutated(Call("unsubscribe", NoKey, Val("number", i, "")))

InsertColumn == \E k \in CallKeys, v \in CallValues : insertColumn(k, v)
UpdateColumn == \E k \in CallKeys, v \in CallValues : updateColumn(k, v)
DeleteColumn == \E k \in CallKeys : deleteColumn(k)
Clear == clear
On ==
    \E r \in Registrations :
        Len(listeners) < MaxListeners /\ on(r.event, r.veto, r.reenter)
Unsubscribe == \E i \in 1..MaxListeners : unsubscribe(i)

Next ==
    \/ InsertColumn
    \/ UpdateColumn
    \/ DeleteColumn
    \/ Clear
    \/ On
    \/ Unsubscribe

Spec == Init /\ [][Next]_vars

(***************************************************************************)
(* The serialization machine: a row of any column types, no listeners,     *)
(* the mutators, toJSON and fromJSON(row.toJSON()).                        *)
(***************************************************************************)
\* json = row.toJSON()
toJSONCall ==
    /\ json' = toJSON(columns, id)
    /\ call' = Call("toJSON", NoKey, Undefined)
    /\ before' = columns
    /\ events' = <<>>
    /\ ret' = TRUE
    /\ restored' = NoRow
    /\ result' = Undefined
    /\ UNCHANGED <<columns, id, id0, uniqueKeyCounter, listeners,
                   caller, shared, generatedIds>>

\* restored = DataRow.fromJSON(json = row.toJSON())
roundTrip ==
    LET j == toJSON(columns, id)
        r == fromJSON(j, uniqueKeyCounter)
    IN  /\ json' = j
        /\ restored' = [columns |-> r.columns, id |-> r.id]
        /\ uniqueKeyCounter' = (IF r.usedUniqueKey THEN uniqueKeyCounter + 1
                                ELSE uniqueKeyCounter)
        /\ generatedIds' = (IF r.usedUniqueKey
                            THEN Append(generatedIds, r.id)
                            ELSE generatedIds)
        /\ call' = Call("roundTrip", NoKey, Undefined)
        /\ before' = columns
        /\ events' = <<>>
        /\ ret' = TRUE
        /\ result' = Undefined
        /\ UNCHANGED <<columns, id, id0, listeners, caller, shared>>

InitJSON == \E m \in InitMappings(ColumnTypes) : Construct(m, FALSE)

JInsertColumn == \E k \in CallKeys, v \in ColumnTypes : insertColumn(k, v)
JUpdateColumn == \E k \in CallKeys, v \in ColumnTypes : updateColumn(k, v)
JDeleteColumn == \E k \in CallKeys : deleteColumn(k)
JClear == clear
ToJSON == toJSONCall
RoundTrip == roundTrip

NextJSON ==
    \/ JInsertColumn
    \/ JUpdateColumn
    \/ JDeleteColumn
    \/ JClear
    \/ ToJSON
    \/ RoundTrip

SpecJSON == InitJSON /\ [][NextJSON]_vars

(***************************************************************************)
(* The construction machine: rows are constructed one after another, from  *)
(* a mapping or from JSON, and the process-wide unique-key counter runs    *)
(* on.  `generatedIds` is the history of the ids U.uniqueKey returned.     *)
(***************************************************************************)
MaxUniqueKeys == 2

\* the values of the mappings rows are constructed from
ConstructValues == {Num0, Date7}

\* JSON of a nested table: an object, and an array of rows
Object1 == Val("object", 1, "")
Array2  == Val("array", 2, "")

JSONValues == {Null, True, Num0, StrS, Object1, Array2}

\* the JSON objects DataRow.fromJSON is called with
JSONObjects ==
    {j \in Mappings(CallKeys, JSONValues) :
        /\ "id" \in DOMAIN j => j["id"] \in {Num0, StrS, Object1}
        /\ "_DATA_CLASS_NAME_" \in DOMAIN j =>
                j["_DATA_CLASS_NAME_"] \in {StrS, Object1}}

\* the constructor draws a unique key only while the counter is below its cap
Capped(r) == r.usedUniqueKey => uniqueKeyCounter < MaxUniqueKeys

Drawn(r) ==
    /\ uniqueKeyCounter' = (IF r.usedUniqueKey THEN uniqueKeyCounter + 1
                            ELSE uniqueKeyCounter)
    /\ generatedIds' = (IF r.usedUniqueKey THEN Append(generatedIds, r.id)
                        ELSE generatedIds)

\* row = new DataRow(m): the next row, the caller keeping m
newDataRow(m) ==
    LET r == DataRow(m, uniqueKeyCounter)
    IN  /\ Capped(r)
        /\ Drawn(r)
        /\ columns' = r.columns
        /\ id' = r.id
        /\ id0' = r.id
        /\ listeners' = <<>>
        /\ call' = Call("new", NoKey, Undefined)
        /\ before' = r.columns
        /\ events' = <<>>
        /\ ret' = TRUE
        /\ json' = NoJSON
        /\ restored' = NoRow
        /\ result' = Undefined
        /\ shared' = r.isArgument
        /\ caller' = (IF r.isArgument THEN r.columns ELSE m)

\* restored = DataRow.fromJSON(j)
fromJSONCall(j) ==
    LET r == fromJSON(j, uniqueKeyCounter)
    IN  /\ Capped(r)
        /\ Drawn(r)
        /\ json' = j
        /\ restored' = [columns |-> r.columns, id |-> r.id]
        /\ call' = Call("fromJSON", NoKey, Undefined)
        /\ before' = columns
        /\ events' = <<>>
        /\ ret' = TRUE
        /\ result' = Undefined
        /\ UNCHANGED <<columns, id, id0, listeners, caller, shared>>

ConstructMappings == InitMappings(ConstructValues)

InitConstruct == \E m \in ConstructMappings : Construct(m, TRUE)

NewDataRow == \E m \in ConstructMappings : newDataRow(m)
FromJSON == \E j \in JSONObjects : fromJSONCall(j)
CRoundTrip == roundTrip

NextConstruct ==
    \/ NewDataRow
    \/ FromJSON
    \/ CRoundTrip

SpecConstruct == InitConstruct /\ [][NextConstruct]_vars

(***************************************************************************)
(* The caller machine: a row without listeners, the mutators, the read     *)
(* operations, and the calling code changing the object it holds: the      *)
(* mapping it passed to the constructor, or the one getAllColumns          *)
(* returned.                                                               *)
(***************************************************************************)
\* the values the calling code stores in its object
CallerValues == {Num0, StrS}

\* result = a read operation of the row: no write to the row, no event
Read(c, r) ==
    /\ result' = r
    /\ call' = c
    /\ before' = columns
    /\ events' = <<>>
    /\ ret' = TRUE
    /\ json' = NoJSON
    /\ restored' = NoRow
    /\ UNCHANGED <<columns, id, id0, uniqueKeyCounter, listeners,
                   generatedIds>>

getColumnCall(columnKey) ==
    /\ Read(Call("getColumn", columnKey, Undefined),
            getColumn(columns, columnKey))
    /\ UNCHANGED <<caller, shared>>

getColumnKeysCall ==
    /\ Read(Call("getColumnKeys", NoKey, Undefined), getColumnKeys(columns))
    /\ UNCHANGED <<caller, shared>>

getColumnCountCall ==
    /\ Read(Call("getColumnCount", NoKey, Undefined), getColumnCount(columns))
    /\ UNCHANGED <<caller, shared>>

\* caller = row.getAllColumns(): the object merge returned, a new one
getAllColumnsCall ==
    /\ Read(Call("getAllColumns", NoKey, Undefined), getAllColumns(columns))
    /\ caller' = getAllColumns(columns)
    /\ shared' = FALSE

\* the calling code changed its object to obj; the object this.columns
\* changes with it when it is the same object
CallerChanged(c, obj) ==
    /\ caller' = obj
    /\ columns' = (IF shared THEN obj ELSE columns)
    /\ call' = c
    /\ before' = columns
    /\ events' = <<>>
    /\ ret' = TRUE
    /\ json' = NoJSON
    /\ restored' = NoRow
    /\ result' = Undefined
    /\ UNCHANGED <<id, id0, uniqueKeyCounter, listeners, shared,
                   generatedIds>>

\* caller[k] = v
callerAssigns(k, v) ==
    CallerChanged(Call("callerAssigns", k, v), Assign(caller, k, v))

\* delete caller[k]
callerDeletes(k) ==
    /\ k \in DOMAIN caller
    /\ CallerChanged(Call("callerDeletes", k, Undefined), Delete(caller, k))

InitCaller == \E m \in InitMappings(CallValues) : Construct(m, TRUE)

GetColumn == \E k \in CallKeys \cup PrototypeKeys : getColumnCall(k)
GetColumnKeys == getColumnKeysCall
GetColumnCount == getColumnCountCall
GetAllColumns == getAllColumnsCall
CToJSON == toJSONCall
CallerAssigns == \E k \in CallKeys, v \in CallerValues : callerAssigns(k, v)
CallerDeletes == \E k \in CallKeys : callerDeletes(k)
CInsertColumn == \E k \in CallKeys, v \in CallValues : insertColumn(k, v)
CUpdateColumn == \E k \in CallKeys, v \in CallValues : updateColumn(k, v)
CDeleteColumn == \E k \in CallKeys : deleteColumn(k)
CClear == clear

NextCaller ==
    \/ GetColumn
    \/ GetColumnKeys
    \/ GetColumnCount
    \/ GetAllColumns
    \/ CToJSON
    \/ CallerAssigns
    \/ CallerDeletes
    \/ CInsertColumn
    \/ CUpdateColumn
    \/ CDeleteColumn
    \/ CClear

SpecCaller == InitCaller /\ [][NextCaller]_vars

(***************************************************************************)
(* The subscription machine: listeners that observe or veto updateColumn   *)
(* are registered and removed, and the mutators are called.                *)
(***************************************************************************)
MaxSubscriptions == 2

Subscriptions ==
    {r \in [event : {"updateColumn", "afterUpdateColumn"},
            veto : BOOLEAN, reenter : {FALSE}] :
        r.veto => r.event \in PreEvents}

InitOn == \E m \in InitMappings(CallValues) : Construct(m, FALSE)

SOn ==
    \E r \in Subscriptions :
        Len(listeners) < MaxSubscriptions /\ on(r.event, r.veto, r.reenter)
SUnsubscribe == \E i \in 1..MaxSubscriptions : unsubscribe(i)
SInsertColumn == \E k \in CallKeys, v \in CallValues : insertColumn(k, v)
SUpdateColumn == \E k \in CallKeys, v \in CallValues : updateColumn(k, v)
SDeleteColumn == \E k \in CallKeys : deleteColumn(k)
SClear == clear

NextOn ==
    \/ SOn
    \/ SUnsubscribe
    \/ SInsertColumn
    \/ SUpdateColumn
    \/ SDeleteColumn
    \/ SClear

SpecOn == InitOn /\ [][NextOn]_vars

(***************************************************************************)
(* What the history of the last call shows.                                *)
(***************************************************************************)
ColumnOps  == {"insertColumn", "updateColumn", "deleteColumn"}
MutatorOps == ColumnOps \cup {"clear"}

PreEventOf(op)  == IF op = "clear" THEN "clearRow" ELSE op
PostEventOf(op) ==
    CASE op = "insertColumn" -> "afterInsertColumn"
      [] op = "updateColumn" -> "afterUpdateColumn"
      [] op = "deleteColumn" -> "afterDeleteColumn"
      [] OTHER -> "afterClearRow"

\* the events the call itself emitted, without those of the calls that
\* listeners made
OwnEvents == SelectSeq(events, LAMBDA e : e.depth = 0)

\* the call was rejected before any event
Rejected ==
    /\ call.op \in ColumnOps
    /\ \/ call.columnKey = "id"
       \/ call.op = "insertColumn" /\ call.columnKey \in DOMAIN before

\* a listener of the call's pre-event prevented its default action
Vetoed ==
    /\ call.op \in MutatorOps
    /\ events # <<>>
    /\ events[1].type = PreEventOf(call.op)
    /\ events[1].defaultPrevented

\* the default action of the call ran: its post-event was emitted
PostEmitted ==
    \E i \in 1..Len(OwnEvents) : OwnEvents[i].type = PostEventOf(call.op)

\* a listener changed the row during the call: the default action of a
\* call made by a listener ran
ListenerMutated ==
    \E i \in 1..Len(events) :
        events[i].depth > 0 /\ events[i].type \in PostEvents

\* every column but k is as it was before the call
OthersUnchanged(k) ==
    \A x \in (DOMAIN columns \cup DOMAIN before) \ {k} :
        /\ x \in DOMAIN columns
        /\ x \in DOMAIN before
        /\ columns[x] = before[x]

(***************************************************************************)
(* C1: in every reachable state the key "id" is not among the column keys  *)
(* and the row's id is the one it had right after construction.            *)
(***************************************************************************)
C1_IdNeverAColumn ==
    /\ "id" \notin getColumnKeys(columns)
    /\ id = id0

\* an updateColumn("id", v) was tried on a row constructed with a string
\* id, after a clear
C1_Witness ==
    /\ call.op = "updateColumn"
    /\ call.columnKey = "id"
    /\ id0 = StrS
    /\ "length" \in DOMAIN columns

C3_VetoLeavesMapping ==
    Vetoed =>
        /\ ~PostEmitted
        /\ columns = before
        /\ ~ret

(***************************************************************************)
(* C3 amended: when a listener vetoes the pre-event, the default action    *)
(* does not run, no post-event is emitted and the call returns false; the  *)
(* column mapping is what it was before the call unless a listener changed *)
(* the row itself during the call.                                         *)
(***************************************************************************)
C3_VetoStopsDefault ==
    Vetoed =>
        /\ ~PostEmitted
        /\ Len(OwnEvents) = 1
        /\ ~ret
        /\ ~ListenerMutated => columns = before

\* a vetoed insert of a key that is not in the row
C3_Witness ==
    /\ Vetoed
    /\ call.op = "insertColumn"
    /\ call.columnKey \notin DOMAIN before
    /\ ~ListenerMutated

(***************************************************************************)
(* C4: a clear() that no listener vetoes returns true and leaves the row   *)
(* with no columns, its id unchanged.                                      *)
(***************************************************************************)
C4_ClearEmpties ==
    (call.op = "clear" /\ ~Vetoed) =>
        /\ ret
        /\ getColumnKeys(columns) = {}
        /\ getColumnCount(columns) = 0
        /\ id = id0

(***************************************************************************)
(* C5: insertColumn("id", v), updateColumn("id", v) and deleteColumn("id") *)
(* return false, emit no event, and leave the column mapping and the id    *)
(* unchanged.                                                              *)
(***************************************************************************)
C5_IdRejected ==
    (call.op \in ColumnOps /\ call.columnKey = "id") =>
        /\ ~ret
        /\ events = <<>>
        /\ columns = before
        /\ id = id0

\* deleteColumn("id") was called on a row with columns and a listener of
\* deleteColumn
C5_Witness ==
    /\ call.op = "deleteColumn"
    /\ call.columnKey = "id"
    /\ columns # NoJSON
    /\ \E i \in 1..Len(listeners) : listeners[i].event = "deleteColumn"

(***************************************************************************)
(* C6: for a key k other than "id": when k is already a column key, even   *)
(* with the stored value undefined, insertColumn(k, v) returns false,      *)
(* emits no event and leaves the stored value; when k is absent and no     *)
(* listener vetoes or changes the row, insertColumn(k, v) returns true     *)
(* and getColumn(k) is v afterwards, and the same insertColumn(k, v)       *)
(* called again at once returns false.                                     *)
(***************************************************************************)
C6_InsertState ==
    (call.op = "insertColumn" /\ call.columnKey # "id") =>
        LET k == call.columnKey
        IN  /\ k \in DOMAIN before =>
                /\ ~ret
                /\ events = <<>>
                /\ columns = before
            /\ (k \notin DOMAIN before /\ ~Vetoed /\ ~ListenerMutated) =>
                /\ ret
                /\ k \in getColumnKeys(columns)
                /\ getColumn(columns, k) = call.columnValue

C6_InsertRepeated ==
    (/\ call.op = "insertColumn"
     /\ call.columnKey # "id"
     /\ ret
     /\ ~ListenerMutated
     /\ call' = call) => ~ret'

C6_InsertNoUpsert == [](C6_InsertState) /\ [][C6_InsertRepeated]_vars

\* the insert of a key that is in the row with the value undefined was
\* rejected
C6_Witness ==
    /\ call.op = "insertColumn"
    /\ call.columnKey = "a"
    /\ "a" \in DOMAIN before
    /\ before["a"] = Undefined
    /\ call.columnValue = Num0
    /\ ~ret

(***************************************************************************)
(* C7 as stated: for a key k other than "id" that is in the row, an        *)
(* updateColumn(k, v) that no listener vetoes returns true, and then       *)
(* getColumn(k) = v while every other column, the set of column keys and   *)
(* the id are unchanged.                                                   *)
(***************************************************************************)
C7_UpdateSetsValue ==
    (/\ call.op = "updateColumn"
     /\ call.columnKey # "id"
     /\ call.columnKey \in DOMAIN before
     /\ ~Vetoed) =>
        /\ ret
        /\ getColumn(columns, call.columnKey) = call.columnValue
        /\ OthersUnchanged(call.columnKey)
        /\ getColumnKeys(columns) = getColumnKeys(before)
        /\ id = id0

(***************************************************************************)
(* C7 amended: for a key k other than "id" that is in the row, an          *)
(* updateColumn(k, v) that no listener vetoes returns true; when moreover  *)
(* no listener changes the row during the call, getColumn(k) = v           *)
(* afterwards while every other column, the set of column keys and the id  *)
(* are unchanged.                                                          *)
(***************************************************************************)
C7_UpdateSetsValueUnlessReentered ==
    (/\ call.op = "updateColumn"
     /\ call.columnKey # "id"
     /\ call.columnKey \in DOMAIN before
     /\ ~Vetoed) =>
        /\ ret
        /\ id = id0
        /\ ~ListenerMutated =>
            /\ getColumn(columns, call.columnKey) = call.columnValue
            /\ OthersUnchanged(call.columnKey)
            /\ getColumnKeys(columns) = getColumnKeys(before)

\* an update changed the value of a column of a row that has another column
C7_Witness ==
    /\ call.op = "updateColumn"
    /\ call.columnKey = "a"
    /\ "a" \in DOMAIN before
    /\ before["a"] # call.columnValue
    /\ ~Vetoed /\ ~ListenerMutated
    /\ "_DATA_CLASS_NAME_" \in DOMAIN columns

JSONPrimitiveTypes == {"null", "boolean", "number", "string"}

OnlyPrimitives == \A k \in DOMAIN columns : columns[k].type \in JSONPrimitiveTypes

SameRow ==
    /\ restored.id = id
    /\ getColumnKeys(restored.columns) = getColumnKeys(columns)
    /\ \A k \in DOMAIN columns :
            getColumn(restored.columns, k) = getColumn(columns, k)

C9_RoundTrip == (call.op = "roundTrip" /\ OnlyPrimitives) => SameRow

(***************************************************************************)
(* C9 amended: for a row whose columns hold only null, boolean, number or  *)
(* string values, under keys that do not start with "_",                   *)
(* fromJSON(row.toJSON()) has the same id, the same column keys and the    *)
(* same value under every key.                                             *)
(***************************************************************************)
C9_RoundTripOfPlainKeys ==
    (/\ call.op = "roundTrip"
     /\ OnlyPrimitives
     /\ \A k \in DOMAIN columns : FirstChar(k) # "_") => SameRow

\* the round trip of a row with a generated id, a null column and the
\* column a clear left
C9_Witness ==
    /\ call.op = "roundTrip"
    /\ OnlyPrimitives
    /\ DOMAIN columns = {"a", "length"}
    /\ columns["a"] = Null
    /\ id = uniqueKey(0)
    /\ SameRow

(***************************************************************************)
(* C10: whatever the columns of the row, the result of toJSON() has the    *)
(* field _DATA_CLASS_NAME_ equal to 'DataRow' and the field id equal to    *)
(* the row's id.                                                           *)
(***************************************************************************)
C10_Discriminator ==
    call.op \in {"toJSON", "roundTrip"} =>
        /\ {"_DATA_CLASS_NAME_", "id"} \subseteq DOMAIN json
        /\ json["_DATA_CLASS_NAME_"] = Str("DataRow")
        /\ json["id"] = id

(***************************************************************************)
(* C11: toJSON() encodes every column (k, value) by the type of value: no  *)
(* field k for undefined; the same value for null, boolean, number and     *)
(* string; the epoch milliseconds for a Date; the table's toJSON() for a   *)
(* Table.  The result has no field besides the discriminator, id and the   *)
(* fields of columns, holds no Date or Table, and the row is unchanged.    *)
(***************************************************************************)
\* the field of the result for the column (k, value)
EncodedAs(k, value) ==
    CASE value.type = "undefined" -> k \notin DOMAIN json
      [] value.type \in JSONPrimitiveTypes ->
            k \in DOMAIN json /\ json[k] = value
      [] value.type = "Date" ->
            k \in DOMAIN json /\ json[k] = Val("number", value.num, "")
      [] OTHER ->
            k \in DOMAIN json /\ json[k] = tableToJSON(value)

PlainTree ==
    /\ DOMAIN json \subseteq {"_DATA_CLASS_NAME_", "id"} \cup DOMAIN columns
    /\ \A f \in DOMAIN json : json[f].type \notin {"Date", "Table"}
    /\ columns = before
    /\ id = id0

C11_Encoding ==
    call.op \in {"toJSON", "roundTrip"} =>
        /\ \A k \in DOMAIN columns : EncodedAs(k, columns[k])
        /\ PlainTree

\* what holds of the code: the same, for the columns under keys other than
\* _DATA_CLASS_NAME_
C11_EncodingOfOtherKeys ==
    call.op \in {"toJSON", "roundTrip"} =>
        /\ \A k \in DOMAIN columns \ {"_DATA_CLASS_NAME_"} :
                EncodedAs(k, columns[k])
        /\ PlainTree

(***************************************************************************)
(* C12: fromJSON(j) builds a row in which no key of j starting with '_'    *)
(* is a column, a key with an object value holds Table.fromJSON(value), a  *)
(* key with an array value holds Table.fromJSON of the envelope with       *)
(* rows: value, every other key holds its value as it is, and a string id  *)
(* field of j is the row's id and no column; a Date column comes back      *)
(* from fromJSON(row.toJSON()) as its epoch milliseconds.                  *)
(***************************************************************************)
\* the column of the restored row for the field (k, value) of j
DecodedAs(k, value) ==
    CASE FirstChar(k) = "_" -> k \notin DOMAIN restored.columns
      [] k = "id" /\ value.type = "string" ->
            restored.id = value /\ k \notin DOMAIN restored.columns
      [] value.type = "object" /\ FirstChar(k) # "_" ->
            k \in DOMAIN restored.columns
                /\ restored.columns[k] = tableFromJSON(value)
      [] value.type = "array" /\ FirstChar(k) # "_" ->
            k \in DOMAIN restored.columns
                /\ restored.columns[k] = tableFromRows(value)
      [] OTHER ->
            k \in DOMAIN restored.columns /\ restored.columns[k] = value

C12_FromJSON ==
    /\ call.op = "fromJSON" =>
            \A k \in DOMAIN json : DecodedAs(k, json[k])
    /\ call.op = "roundTrip" =>
            \A k \in DOMAIN columns :
                columns[k].type = "Date" =>
                    Lookup(restored.columns, k) = getTime(columns[k])

\* the same, with no id field of j ever a column, whatever its value, and
\* the Date columns under the keys that fromJSON does not skip
C12_FromJSONButId ==
    /\ call.op = "fromJSON" =>
            /\ \A k \in DOMAIN json \ {"id"} : DecodedAs(k, json[k])
            /\ "id" \notin DOMAIN restored.columns
            /\ DOMAIN restored.columns \subseteq DOMAIN json
            /\ Lookup(json, "id").type = "string" => restored.id = json["id"]
            /\ Lookup(json, "id").type # "string" =>
                    restored.id = generatedIds[Len(generatedIds)]
    /\ call.op = "roundTrip" =>
            \A k \in DOMAIN columns :
                columns[k].type = "Date" /\ FirstChar(k) # "_" =>
                    Lookup(restored.columns, k) = getTime(columns[k])

C12_Witness ==
    /\ call.op = "fromJSON"
    /\ "_DATA_CLASS_NAME_" \in DOMAIN json
    /\ Lookup(json, "id") = Num0
    /\ Lookup(json, "a") = Array2
    /\ Lookup(restored.columns, "a").type = "Table"

(***************************************************************************)
(* C13: construction fixes the identity: a string id entry of the initial  *)
(* mapping is the row's id; otherwise the id is a generated string that    *)
(* differs from every id generated earlier, so any two rows constructed    *)
(* without a string id have different ids; the id entry is removed from    *)
(* the stored columns and all other entries become columns.                *)
(***************************************************************************)
C13_Identity ==
    /\ call.op = "new" =>
            LET entry == Lookup(caller, "id")
                n == Len(generatedIds)
            IN  /\ id.type = "string"
                /\ entry.type = "string" => id = entry
                /\ entry.type # "string" =>
                        /\ n > 0
                        /\ id = generatedIds[n]
                        /\ \A i \in 1..(n - 1) : generatedIds[i] # id
                /\ columns = Delete(caller, "id")
    /\ \A i, j \in 1..Len(generatedIds) :
            i # j => generatedIds[i] # generatedIds[j]

C13_Witness ==
    /\ call.op = "new"
    /\ Lookup(caller, "id") = Num0
    /\ Len(generatedIds) = 2
    /\ "a" \in DOMAIN columns

(***************************************************************************)
(* C14: the column mapping is never the caller's object: a change of the   *)
(* mapping getAllColumns() returned, or of the mapping passed to the       *)
(* constructor, changes no later getColumn / getColumnKeys /               *)
(* getColumnCount result and not the id; the constructor does not delete   *)
(* the id entry from the caller's object.                                  *)
(***************************************************************************)
CallerOps == {"callerAssigns", "callerDeletes"}

C14_CallerStep ==
    call'.op \in CallerOps =>
        /\ \A k \in CallKeys \cup DOMAIN columns \cup DOMAIN columns' :
                getColumn(columns', k) = getColumn(columns, k)
        /\ getColumnKeys(columns') = getColumnKeys(columns)
        /\ getColumnCount(columns') = getColumnCount(columns)
        /\ id' = id

\* after new DataRow(m) with a string id entry, m still has that entry
C14_IdEntryKept ==
    (call.op = "new" /\ id \in IdEntries) =>
        ("id" \in DOMAIN caller /\ caller["id"] = id)

C14_NoAlias == [](C14_IdEntryKept) /\ [][C14_CallerStep]_vars

C14_Witness ==
    /\ call.op = "callerAssigns"
    /\ call.columnKey = "a"
    /\ call.columnValue = StrS
    /\ "a" \in DOMAIN columns
    /\ columns["a"] # caller["a"]
    /\ Lookup(caller, "id") = StrS
    /\ id # StrS

(***************************************************************************)
(* C16: getColumn(k) returns the stored value, or undefined when k is      *)
(* absent; getColumnCount() is the number of the keys getColumnKeys()      *)
(* returns; getColumn, getColumnKeys, getColumnCount, getAllColumns and    *)
(* toJSON leave the mapping and the id unchanged and emit no event.        *)
(***************************************************************************)
ReadOps == {"getColumn", "getColumnKeys", "getColumnCount",
            "getAllColumns", "toJSON"}

C16_ReadStep ==
    call'.op \in ReadOps =>
        /\ columns' = columns
        /\ id' = id
        /\ events' = <<>>
        /\ call'.op = "getColumn" =>
                result' = (IF call'.columnKey \in DOMAIN columns
                           THEN columns[call'.columnKey] ELSE Undefined)
        /\ call'.op = "getColumnKeys" => result' = DOMAIN columns
        /\ call'.op = "getColumnCount" => result' = Cardinality(DOMAIN columns)
        /\ call'.op = "getAllColumns" => result' = columns

C16_Reads == [][C16_ReadStep]_vars

\* what holds of the code: the same, for getColumn(k) of a key k that
\* Object.prototype does not define
C16_ReadsOfOwnNames ==
    [][(call'.op = "getColumn" /\ call'.columnKey \in PrototypeKeys)
        \/ C16_ReadStep]_vars

(***************************************************************************)
(* C15: on(eventName, listener) returns a function that removes exactly    *)
(* that registration: its listener is not called for later events of       *)
(* that name, every other registration is still called, and calling the    *)
(* function a second time changes no registration.                         *)
(***************************************************************************)
\* the registrations for the event `type`, in the order they were made
RECURSIVE RegisteredFor(_, _)
RegisteredFor(type, n) ==
    IF n = 0 THEN <<>>
    ELSE IF listeners[n] # Removed /\ listeners[n].event = type
         THEN Append(RegisteredFor(type, n - 1), n)
         ELSE RegisteredFor(type, n - 1)

\* every event of the last call called the listeners registered for it then
C15_CalledAreRegistered ==
    \A e \in 1..Len(events) :
        events[e].called = RegisteredFor(events[e].type, Len(listeners))

C15_RegistrationStep ==
    /\ call'.op = "on" =>
            /\ Len(listeners') = Len(listeners) + 1
            /\ listeners'[Len(listeners')].event = call'.columnKey
            /\ \A i \in 1..Len(listeners) : listeners'[i] = listeners[i]
    /\ call'.op = "unsubscribe" =>
            /\ Len(listeners') = Len(listeners)
            /\ listeners'[call'.columnValue.num] = Removed
            /\ \A i \in 1..Len(listeners) :
                    i # call'.columnValue.num => listeners'[i] = listeners[i]
            /\ listeners[call'.columnValue.num] = Removed =>
                    listeners' = listeners
    /\ call'.op \notin {"on", "unsubscribe"} => listeners' = listeners

C15_Unsubscribe ==
    [](C15_CalledAreRegistered) /\ [][C15_RegistrationStep]_vars

\* updateColumn called the listener of the second registration and not the
\* listener of the first, removed one, registered for the same event
C15_Witness ==
    /\ call.op = "updateColumn"
    /\ Len(listeners) = 2
    /\ listeners[1] = Removed
    /\ listeners[2].event = "updateColumn"
    /\ Len(events) = 2
    /\ events[1].called = <<2>>

(***************************************************************************)
(* C17 as stated: whenever insertColumn(k, v) returns true, the key k was  *)
(* absent at the moment its default action stored v, also when a listener  *)
(* of the call's insertColumn pre-event itself stores k before the         *)
(* default action runs.                                                    *)
(***************************************************************************)
\* the index, in the trace, of the post-event of the call itself
OwnPost ==
    CHOOSE e \in 1..Len(events) :
        events[e].depth = 0 /\ events[e].type = PostEventOf(call.op)

\* The column mapping when the default action of the call ran.  The trace
\* entry before the call's post-event is its pre-event, or the last event
\* of the last call a listener of the pre-event made; the mapping recorded
\* there is the one the default action found, since a listener writes to
\* the row only through such a call, whose own listeners make none.
AtDefault == events[OwnPost - 1].columns

C17_AbsentAtDefault ==
    (call.op = "insertColumn" /\ ret) =>
        /\ PostEmitted
        /\ call.columnKey \notin DOMAIN AtDefault

\* C17 as the code has it: the key was absent when the call checked for
\* it, before its pre-event; the default action stores v in any case, over
\* what a listener of the pre-event stored under k
C17_AbsentAtCheck ==
    (call.op = "insertColumn" /\ ret) =>
        /\ PostEmitted
        /\ call.columnKey \notin DOMAIN before
        /\ call.columnKey \notin DOMAIN events[1].columns
        /\ call.columnKey \in DOMAIN events[OwnPost].columns
        /\ events[OwnPost].columns[call.columnKey] = call.columnValue

\* insertColumn("a", undefined) returned true after a listener of its
\* pre-event had stored 0 under "a"
C17_Witness ==
    /\ call.op = "insertColumn"
    /\ ret
    /\ call.columnKey \notin DOMAIN before
    /\ call.columnKey \in DOMAIN AtDefault
    /\ AtDefault[call.columnKey] # call.columnValue
    /\ events[OwnPost].columns[call.columnKey] = call.columnValue

(***************************************************************************)
(* C18 as stated: updateColumn makes no existence check: for a key k       *)
(* other than "id" that is absent, an updateColumn(k, v) that no listener  *)
(* vetoes emits updateColumn and afterUpdateColumn, returns true and adds  *)
(* k with the value v, so that getColumnCount() grows by one and a         *)
(* following insertColumn(k, w) returns false.                             *)
(***************************************************************************)
\* the last call was an updateColumn of an absent key that went through
UpdatedAbsent ==
    /\ call.op = "updateColumn"
    /\ call.columnKey # "id"
    /\ call.columnKey \notin DOMAIN before
    /\ ~Vetoed

UpdateEmitted ==
    /\ ret
    /\ Len(OwnEvents) = 2
    /\ OwnEvents[1].type = "updateColumn"
    /\ OwnEvents[2].type = "afterUpdateColumn"
    /\ call.columnKey \in getColumnKeys(columns)

UpdateAdded ==
    /\ getColumn(columns, call.columnKey) = call.columnValue
    /\ getColumnCount(columns) = getColumnCount(before) + 1

\* a following insertColumn of the same key returns false
C18_InsertAfter ==
    (/\ UpdatedAbsent
     /\ call'.op = "insertColumn"
     /\ call'.columnKey = call.columnKey) =>
        /\ ~ret'
        /\ columns' = columns

====
